---- MODULE Spec2Model ----
(***************************************************************************)
(* State-machine model of the multi-database core of bookacut_backend:     *)
(*   ConnectionManager  (src/src/database/connectionManager.js)            *)
(*   model factory      (src/src/config/database.js, lines 20-112)         *)
(*   authenticate / optionalAuth (src/src/middlewares/auth.js)             *)
(*   resolveDatabase    (src/unnamed/part_001)                             *)
(*   registerCustomer   (src/src/controllers/authController.js)            *)
(*                                                                         *)
(* Node runs every synchronous stretch of code atomically; an async        *)
(* function is cut into one action per stretch between two awaits.         *)
(***************************************************************************)
EXTENDS Integers, Sequences, FiniteSets, TLC

\* ------------------------------------------------------------------ bounds
MaxCalls == 3        \* invocations (one-shot call slots) per behaviour
MaxConns == 2        \* connections getDb may create, besides mainConnection
MaxClears == 1       \* clearModels / clearAllModels invocations
MaxReqs == 2         \* express requests per behaviour (they take the first slots)

\* ------------------------------------------------------------- value sets
PlatformDb == "platform_db"
TenantDbs == {"client_a_db", "client_b_db"}
DbNames == TenantDbs \cup {PlatformDb}
NoName == "<none>"                       \* undefined / null / "" in JS
Entities == {"User", "Role"}
DirectEntities == {"User"}               \* names direct getModel callers ask for
Schemas == {"s1", "s2"}
UserSchema == "s1"                       \* client/models/User schema
RoleSchema == "s2"                       \* client/models/Role schema
NoSchema == "<unbound>"
OverwriteModelError == "OverwriteModelError"   \* the spec's ModelConflict

Calls == 1..MaxCalls
MainConn == 1                            \* the connection initialize() makes
Conns == 1..(MaxConns + 1)
NoConn == 0

BaseUri == "mongodb://cluster"
QueryParams == "?retryWrites=true"

VARIABLES
  connections,   \* ConnectionManager.connections : Map<databaseName, connection>
  mainConnection,\* ConnectionManager.mainConnection
  conn,          \* every mongoose connection object ever created
  modelCache,    \* modelFactory modelCache : Map<databaseName, Map<modelName, Model>>
  store,         \* the cluster: documents held by each physical database
  physical,      \* the cluster: names listDatabases() reports
  calls,         \* invocations in flight or finished
  req,           \* the express request a call slot serves (middlewares, controllers)
  registrations, \* history: connection.model(name, schema) calls per (connection, name)
  lastRead,      \* history: result of the latest query through a model
  clears         \* history: number of clearModels / clearAllModels calls

vars == <<connections, mainConnection, conn, modelCache, store, physical,
          calls, req, registrations, lastRead, clears>>

\* ------------------------------------------------------- connection target
\* getDb lines 76-82: `${baseUri}/${databaseName}${queryParams}`
DbUri(databaseName) == <<BaseUri, databaseName, QueryParams>>

\* a connection that ignores the name and opens the cluster's default database
TargetDbDefault(uri) == PlatformDb

\* the driver opens the database named by the path component of the URI
TargetDb(uri) == uri[2]

FreshConn == [name |-> NoName, db |-> NoName, state |-> "none", handlers |-> FALSE,
              models |-> [e \in Entities |-> NoSchema]]

Used == {k \in Conns : conn[k].state # "none"}

\* mongoose.createConnection(dbUri): a new connection object, still connecting
NewConnId == IF Used = {} THEN 1 ELSE 1 + CHOOSE k \in Used : \A j \in Used : j <= k

\* `name` is the databaseName variable the handlers of lines 89-100 close over,
\* `db` the physical database the connection talks to
CreateConnection(k, databaseName) ==
  [conn EXCEPT ![k] = [name |-> databaseName,
                       db |-> TargetDb(DbUri(databaseName)), state |-> "connecting",
                       handlers |-> FALSE,
                       models |-> [e \in Entities |-> NoSchema]]]

\* ------------------------------------------------------------- call slots
IdleCall == [op |-> "idle", pc |-> "idle", db |-> NoName, ent |-> NoName,
             schema |-> NoSchema, conn |-> NoConn, gen |-> 0,
             out |-> "pending", ret |-> NoConn,
             cached |-> FALSE]     \* history: answered from a cache, no await

\* ---------------------------------------------------------------- requests
PlatformRole == "platform_super_admin"
TenantRoles == {"client_admin", "staff", "customer"}
Roles == {PlatformRole} \cup TenantRoles

\* the Authorization header: absent, not verifiable, or a verified payload
NoToken == [kind |-> "none", role |-> NoName, databaseName |-> NoName]
BadToken == [kind |-> "invalid", role |-> NoName, databaseName |-> NoName]
Tokens == {NoToken, BadToken}
          \cup [kind : {"jwt"}, role : Roles, databaseName : {NoName} \cup TenantDbs]

\* req.user as an upstream authenticator may have left it
NoUser == [set |-> FALSE, role |-> NoName, databaseName |-> NoName, dbName |-> NoName]
Users == {NoUser}
         \cup [set : {TRUE}, role : Roles, databaseName : {NoName, "client_a_db"},
                dbName : {NoName, "client_b_db"}]
BodyNames == {NoName, "client_b_db"}     \* req.body.databaseName
QueryNames == {NoName, "client_a_db"}    \* req.query.databaseName

NoReq == [token |-> NoToken, body |-> NoName, query |-> NoName, user |-> NoUser,
          db |-> NoConn, databaseName |-> NoName,
          asked |-> NoName,      \* history: the name this request passed to getDb
          from |-> "none",       \* history: where that name came from
          attempts |-> 0,        \* history: connections created for this request
          validated |-> {},      \* history: names databaseExists accepted
          issued |-> NoToken,    \* the token the response carries
          owner |-> NoName,      \* provisioning: the owner's email
          existed |-> FALSE,     \* provisioning: databaseExists said yes
          created |-> {},        \* history: databases this run brought into being
          after |-> {},          \* history: the calls that had ended when it began
          aborted |-> FALSE,     \* the client went away while the request was served
          closing |-> {}]        \* closeAll: the connections it called close() on

\* slots are taken in order: slot c starts only once slot c-1 has started
CanStart(c) ==
  /\ calls[c].op = "idle"
  /\ c > 1 => calls[c - 1].op # "idle"

NoMap == [has |-> FALSE, gen |-> 0, models |-> [e \in Entities |-> NoConn]]

Init ==
  \* the state initialize() leaves (lines 21-53): platform_db connected and stored
  /\ conn = [k \in Conns |->
       IF k = MainConn
         THEN [name |-> PlatformDb,
               db |-> TargetDb(DbUri(PlatformDb)), state |-> "connected",
               handlers |-> FALSE, models |-> [e \in Entities |-> NoSchema]]
         ELSE FreshConn]
  /\ connections = [n \in DbNames |-> IF n = PlatformDb THEN MainConn ELSE NoConn]
  /\ mainConnection = MainConn
  /\ modelCache = [n \in DbNames |-> NoMap]
  /\ store = [n \in DbNames |-> {}]
  /\ physical = {PlatformDb, "client_a_db"}
  /\ calls = [c \in Calls |-> IdleCall]
  /\ req = [c \in Calls |-> NoReq]
  /\ registrations = [k \in Conns |-> [e \in Entities |-> 0]]
  /\ lastRead = [via |-> NoName, docs |-> {}]
  /\ clears = 0

\* ------------------------------------------------- ConnectionManager.getDb
\* a getDb that never finds an entry
GetDbHitNever(databaseName) == FALSE

\* lines 64-84, the synchronous stretch up to `await createConnection`:
\* the call record that results for slot record `cr` asking for `databaseName`
\* (the connection table changes only on a miss, see GetDbConn).
GetDbHit(databaseName) == connections[databaseName] # NoConn

\* connection table after the synchronous stretch of getDb(databaseName)
GetDbConn(databaseName) ==
  IF GetDbHit(databaseName) THEN conn
  ELSE CreateConnection(NewConnId, databaseName)

\* the connection the caller of getDb(databaseName) ends up awaiting
GetDbAwaited(databaseName) ==
  IF GetDbHit(databaseName) THEN connections[databaseName] ELSE NewConnId

\* room for one more connection object (bound of the model)
GetDbRoom(databaseName) == GetDbHit(databaseName) \/ NewConnId \in Conns

\* a direct call of connectionManager.getDb(databaseName)
GetDbStart(c, databaseName) ==
  /\ CanStart(c)
  /\ GetDbRoom(databaseName)
  /\ conn' = GetDbConn(databaseName)
  /\ calls' = [calls EXCEPT ![c] =
       IF GetDbHit(databaseName)
         THEN [IdleCall EXCEPT !.op = "getDb", !.pc = "done", !.db = databaseName,
                               !.conn = connections[databaseName],
                               !.out = "ok", !.ret = connections[databaseName],
                               !.cached = TRUE]
         ELSE [IdleCall EXCEPT !.op = "getDb", !.pc = "awaitDb", !.db = databaseName,
                               !.conn = NewConnId]]
  /\ UNCHANGED <<connections, mainConnection, modelCache, store, physical, req,
                 registrations, lastRead, clears>>

\* lines 89-103: createConnection resolved; handlers registered, entry stored.
\* This continuation belongs to the getDb invocation itself and runs whether or
\* not anybody still awaits its promise.
ConnectSucceeds(k) ==
  /\ conn[k].state = "connecting"
  /\ conn' = [conn EXCEPT ![k].state = "connected", ![k].handlers = TRUE]
  /\ connections' = [connections EXCEPT ![conn[k].name] = k]
  /\ UNCHANGED <<mainConnection, modelCache, store, physical, calls, req,
                 registrations, lastRead, clears>>

\* lines 104-107: createConnection rejected; the error is rethrown, nothing stored
ConnectFails(k) ==
  /\ conn[k].state = "connecting"
  /\ conn' = [conn EXCEPT ![k].state = "error"]
  /\ UNCHANGED <<connections, mainConnection, modelCache, store, physical, calls,
                 req, registrations, lastRead, clears>>

\* the awaiting caller of a direct getDb resumes with the connection or the error
GetDbReturn(c) ==
  /\ calls[c].op = "getDb" /\ calls[c].pc = "awaitDb"
  /\ conn[calls[c].conn].state # "connecting"
  /\ calls' = [calls EXCEPT ![c].pc = "done",
       ![c].out = IF conn[calls[c].conn].state = "error" THEN "ConnectError" ELSE "ok",
       ![c].ret = IF conn[calls[c].conn].state = "error" THEN NoConn ELSE calls[c].conn]
  /\ UNCHANGED <<connections, mainConnection, conn, modelCache, store, physical,
                 req, registrations, lastRead, clears>>

\* lines 90-92 (and 45-47 for mainConnection): the 'error' handler logs the
\* error; the connection stays where it is in the registry
ErrorEvent(k) ==
  /\ conn[k].state = "connected"
  /\ conn' = [conn EXCEPT ![k].state = "faulted"]
  /\ UNCHANGED <<connections, mainConnection, modelCache, store, physical, calls,
                 req, registrations, lastRead, clears>>

\* an eviction that leaves the entry where it is
ConnectionsDeleteNothing(databaseName) == connections

\* lines 96 and 212: this.connections.delete(databaseName)
ConnectionsDelete(databaseName) == [connections EXCEPT ![databaseName] = NoConn]

\* lines 94-97: the 'disconnected' handler getDb registered deletes the entry
\* stored under the connection's database name (mainConnection's handler, lines
\* 49-51, only logs)
Disconnected(k) ==
  /\ conn[k].state \in {"connected", "faulted"}
  /\ conn' = [conn EXCEPT ![k].state = "disconnected"]
  /\ connections' = IF conn[k].handlers
                      THEN ConnectionsDelete(conn[k].name)
                      ELSE connections
  /\ UNCHANGED <<mainConnection, modelCache, store, physical, calls, req,
                 registrations, lastRead, clears>>

\* ------------------------------------------- ConnectionManager.closeDatabase
\* lines 207-211: has -> get -> close() begun (await)
CloseDatabaseStart(c, databaseName) ==
  /\ CanStart(c)
  /\ IF connections[databaseName] # NoConn
       THEN /\ calls' = [calls EXCEPT ![c] =
                 [IdleCall EXCEPT !.op = "closeDatabase", !.pc = "closing",
                                  !.db = databaseName,
                                  !.conn = connections[databaseName]]]
            /\ conn' = [conn EXCEPT ![connections[databaseName]].state =
                 IF @ = "connected" THEN "closing" ELSE @]
       ELSE /\ calls' = [calls EXCEPT ![c] =
                 [IdleCall EXCEPT !.op = "closeDatabase", !.pc = "done",
                                  !.db = databaseName, !.out = "ok"]]
            /\ conn' = conn
  /\ UNCHANGED <<connections, mainConnection, modelCache, store, physical, req,
                 registrations, lastRead, clears>>

\* close() resolved: the connection is closed (its 'disconnected' handler, lines
\* 94-97, fires as it closes) and line 212 deletes the entry under databaseName
CloseDatabaseDone(c) ==
  /\ calls[c].op = "closeDatabase" /\ calls[c].pc = "closing"
  /\ conn' = [conn EXCEPT ![calls[c].conn].state = "closed"]
  /\ connections' = ConnectionsDelete(calls[c].db)
  /\ calls' = [calls EXCEPT ![c].pc = "done", ![c].out = "ok"]
  /\ UNCHANGED <<mainConnection, modelCache, store, physical, req,
                 registrations, lastRead, clears>>

\* ------------------------------------------------ ConnectionManager.closeAll
\* the connections the registry holds
Registered == {k \in Conns : \E n \in DbNames : connections[n] = k}

\* lines 192-195: close() is called on every connection of the registry, and
\* the promises are awaited together
CloseAllStart(c) ==
  /\ CanStart(c)
  /\ calls' = [calls EXCEPT ![c] =
       [IdleCall EXCEPT !.op = "closeAll", !.pc = "closing"]]
  /\ req' = [req EXCEPT ![c] = [NoReq EXCEPT !.closing = Registered]]
  /\ conn' = [k \in Conns |->
       IF k \in Registered THEN [conn[k] EXCEPT !.state = "closing"] ELSE conn[k]]
  /\ UNCHANGED <<connections, mainConnection, modelCache, store, physical,
                 registrations, lastRead, clears>>

\* one close() that closeAll started settles: the connection is closed (a
\* connection getDb created deletes its entry as it emits 'disconnected',
\* lines 94-97), or close() rejects and the connection is as it was
CloseSettles(k, ok) ==
  /\ conn[k].state = "closing"
  /\ \E c \in Calls : calls[c].op = "closeAll" /\ k \in req[c].closing
  /\ conn' = [conn EXCEPT ![k].state = IF ok THEN "closed" ELSE "closeError"]
  /\ connections' = IF ok /\ conn[k].handlers
                      THEN ConnectionsDelete(conn[k].name)
                      ELSE connections
  /\ UNCHANGED <<mainConnection, modelCache, store, physical, calls, req,
                 registrations, lastRead, clears>>

\* lines 195-201: Promise.all resolved, and line 196 clears the registry; or
\* it rejected, and the catch logs and rethrows with line 196 skipped
ConnectionsAfterCloseAll(failed) ==
  IF failed THEN connections ELSE [n \in DbNames |-> NoConn]

\* lines 195-201, after `await Promise.all(closePromises)` settled: it
\* rejects with the first close() that rejects and resolves once all resolved
CloseAllDone(c) ==
  /\ calls[c].op = "closeAll" /\ calls[c].pc = "closing"
  /\ LET failed == \E k \in req[c].closing : conn[k].state = "closeError"
     IN /\ failed \/ \A k \in req[c].closing : conn[k].state # "closing"
        /\ connections' = ConnectionsAfterCloseAll(failed)
        /\ calls' = [calls EXCEPT ![c].pc = "done",
                                  ![c].out = IF failed THEN "CloseError" ELSE "ok"]
  /\ UNCHANGED <<mainConnection, conn, modelCache, store, physical, req,
                 registrations, lastRead, clears>>

\* ------------------------------------------------------ modelFactory.getModel
\* a cache keyed by the model name alone: one first-level entry for everybody
CacheKeyShared(databaseName) == "client_a_db"

\* lines 41, 42, 45: the first-level key of modelCache is the database name
CacheKey(databaseName) == databaseName

\* lines 41-43: the per-database Map, created on first use
WithDbMap(cache, databaseName) ==
  IF cache[CacheKey(databaseName)].has THEN cache
  ELSE [cache EXCEPT ![CacheKey(databaseName)] =
          [has |-> TRUE, gen |-> @.gen + 1, models |-> [e \in Entities |-> NoConn]]]

\* line 45: dbModels = modelCache.get(databaseName)
DbModels(cache, databaseName) == cache[CacheKey(databaseName)]

\* lines 72 / 79: dbModels.set(modelName, Model) on the Map object the call
\* captured at line 45; a Map that clearModels has since dropped from
\* modelCache is no longer reachable from it
DbModelsSet(cache, databaseName, gen, modelName, k) ==
  IF cache[CacheKey(databaseName)].has /\ cache[CacheKey(databaseName)].gen = gen
    THEN [cache EXCEPT ![CacheKey(databaseName)].models[modelName] = k]
    ELSE cache

\* line 48: dbModels.has(modelName) fails
GetModelMiss(databaseName, modelName) ==
  DbModels(WithDbMap(modelCache, databaseName), databaseName).models[modelName] = NoConn

\* lines 35-62, the synchronous stretch up to `await getDb`: the invocation
\* as it stands when getModel first yields (or returns, or throws)
GetModelEntry(databaseName, modelName, schema) ==
  LET dbModels == DbModels(WithDbMap(modelCache, databaseName), databaseName)
      base == [IdleCall EXCEPT !.op = "getModel", !.db = databaseName,
                               !.ent = modelName, !.schema = schema,
                               !.gen = dbModels.gen]
  IN IF ~GetModelMiss(databaseName, modelName)
       THEN \* lines 48-50: cached model returned
            [base EXCEPT !.pc = "done", !.out = "ok",
                         !.conn = dbModels.models[modelName],
                         !.ret = dbModels.models[modelName],
                         !.cached = TRUE]
     ELSE IF databaseName = PlatformDb
       THEN \* lines 57-58 and 70: getPlatformDb() is not awaited, so
            \* `connection` is a promise and connection.models[modelName]
            \* throws; the getDb it started runs on by itself
            [base EXCEPT !.pc = "done", !.out = "TypeError"]
     ELSE \* line 61
            [base EXCEPT !.pc = "awaitDb", !.conn = GetDbAwaited(databaseName)]

\* the connection table after that stretch (lines 58 / 61 call getDb on a miss)
GetModelEntryConn(databaseName, modelName) ==
  IF GetModelMiss(databaseName, modelName) THEN GetDbConn(databaseName) ELSE conn

GetModelRoom(databaseName, modelName) ==
  ~GetModelMiss(databaseName, modelName) \/ GetDbRoom(databaseName)

GetModelStart(c, databaseName, modelName, schema) ==
  /\ CanStart(c)
  /\ GetModelRoom(databaseName, modelName)
  /\ modelCache' = WithDbMap(modelCache, databaseName)
  /\ conn' = GetModelEntryConn(databaseName, modelName)
  /\ calls' = [calls EXCEPT ![c] = GetModelEntry(databaseName, modelName, schema)]
  /\ UNCHANGED <<connections, mainConnection, store, physical, req,
                 registrations, lastRead, clears>>

\* lines 35-38: an argument is missing (undefined, null or ''); the call
\* throws before it reads or writes modelCache and before any getDb
MissingArgument(databaseName, modelName, schema) ==
  databaseName = NoName \/ modelName = NoName \/ schema = NoSchema

GetModelMissingArgument(c, databaseName, modelName, schema) ==
  /\ CanStart(c)
  /\ MissingArgument(databaseName, modelName, schema)
  /\ calls' = [calls EXCEPT ![c] =
       [IdleCall EXCEPT !.op = "getModel", !.pc = "done", !.db = databaseName,
                        !.ent = modelName, !.schema = schema,
                        !.out = "ArgumentError"]]
  /\ UNCHANGED <<connections, mainConnection, conn, modelCache, store, physical,
                 req, registrations, lastRead, clears>>

\* getModel without the check of line 70
HasModelNever(k, modelName) == FALSE

\* line 70: connection.models[modelName] exists
HasModel(k, modelName) == conn[k].models[modelName] # NoSchema

\* lines 64-81, after `await getDb` settled, for the invocation cr:
\* line 76, connection.model(modelName, schema), is reached when line 70 finds
\* no model; the data-mapping layer refuses a name the connection already has
Registers(cr) ==
  conn[cr.conn].state # "error" /\ ~HasModel(cr.conn, cr.ent)

\* how the invocation ends
BindOut(cr) ==
  IF conn[cr.conn].state = "error" THEN "ConnectError"
  ELSE IF Registers(cr) /\ conn[cr.conn].models[cr.ent] # NoSchema
    THEN OverwriteModelError
  ELSE "ok"

\* the connection table after it: line 76 binds the schema under the name
BindConn(cr) ==
  IF Registers(cr) /\ BindOut(cr) = "ok"
    THEN [conn EXCEPT ![cr.conn].models[cr.ent] = cr.schema]
    ELSE conn

\* a getModel that caches whatever its connection came to
BindCacheAlways(cr) == DbModelsSet(modelCache, cr.db, cr.gen, cr.ent, cr.conn)

\* lines 72 / 79
BindCache(cr) ==
  IF BindOut(cr) = "ok"
    THEN DbModelsSet(modelCache, cr.db, cr.gen, cr.ent, cr.conn)
    ELSE modelCache

BindRegs(cr) ==
  IF Registers(cr)
    THEN [registrations EXCEPT ![cr.conn][cr.ent] = @ + 1]
    ELSE registrations

GetModelResume(c) ==
  /\ calls[c].op = "getModel" /\ calls[c].pc = "awaitDb"
  /\ conn[calls[c].conn].state # "connecting"
  /\ calls' = [calls EXCEPT ![c].pc = "done", ![c].out = BindOut(calls[c]),
       ![c].ret = IF BindOut(calls[c]) = "ok" THEN calls[c].conn ELSE NoConn]
  /\ conn' = BindConn(calls[c])
  /\ modelCache' = BindCache(calls[c])
  /\ registrations' = BindRegs(calls[c])
  /\ UNCHANGED <<connections, mainConnection, store, physical, req, lastRead, clears>>

\* lines 87-91
ClearModels(databaseName) ==
  /\ clears < MaxClears
  /\ clears' = clears + 1
  /\ modelCache' = [modelCache EXCEPT ![databaseName] =
       IF @.has THEN [has |-> FALSE, gen |-> @.gen,
                      models |-> [e \in Entities |-> NoConn]]
       ELSE @]
  /\ UNCHANGED <<connections, mainConnection, conn, store, physical, calls, req,
                 registrations, lastRead>>

\* lines 96-98
ClearAllModels ==
  /\ clears < MaxClears
  /\ clears' = clears + 1
  /\ modelCache' = [n \in DbNames |->
       [has |-> FALSE, gen |-> modelCache[n].gen,
        models |-> [e \in Entities |-> NoConn]]]
  /\ UNCHANGED <<connections, mainConnection, conn, store, physical, calls, req,
                 registrations, lastRead>>

\* ------------------------------------------------ documents through a model
\* a model object is the pair (connection it is bound to, model name)
HoldsModel(c) ==
  /\ calls[c].op = "getModel" /\ calls[c].pc = "done" /\ calls[c].out = "ok"

\* the physical database a model's operations go to: that of its connection
ModelDb(k) == conn[k].db

\* Model.create(...) by the caller that obtained the model from getModel
DocWrite(c) ==
  /\ HoldsModel(c)
  /\ conn[calls[c].ret].state \in {"connected", "closing"}
  /\ LET doc == [via |-> calls[c].db, ent |-> calls[c].ent]
     IN /\ doc \notin store[ModelDb(calls[c].ret)]
        /\ store' = [store EXCEPT ![ModelDb(calls[c].ret)] = @ \cup {doc}]
  /\ physical' = physical \cup {ModelDb(calls[c].ret)}
  /\ UNCHANGED <<connections, mainConnection, conn, modelCache, calls, req,
                 registrations, lastRead, clears>>

\* Model.find(...) by the caller that obtained the model from getModel
DocRead(c) ==
  /\ HoldsModel(c)
  /\ conn[calls[c].ret].state \in {"connected", "closing"}
  /\ lastRead' = [via |-> calls[c].db,
                  docs |-> {d \in store[ModelDb(calls[c].ret)] : d.ent = calls[c].ent}]
  /\ lastRead' # lastRead
  /\ UNCHANGED <<connections, mainConnection, conn, modelCache, store, physical,
                 calls, req, registrations, clears>>

\* ======================================================================
\* Request handling
\* ======================================================================
\* a request takes one of the first MaxReqs slots
CanStartReq(c) == CanStart(c) /\ c <= MaxReqs

Idle == {c \in Calls : calls[c].op = "idle"}
FirstIdle == CHOOSE c \in Idle : \A d \in Idle : c <= d

\* the request record of a getDb(databaseName) call made for request r
AskDb(r, databaseName, from) ==
  [r EXCEPT !.asked = databaseName, !.from = from,
            !.attempts = IF GetDbHit(databaseName) THEN @ ELSE @ + 1]

\* ---------------------------------------- middlewares/auth.js: authenticate
\* line 48: the name the verified payload carries
TokenName(decoded) == decoded.databaseName

\* lines 15-50 (authenticate) and 95-111 (optionalAuth): what the synchronous
\* stretch up to `await getDb` comes to.  The platform branch calls
\* getPlatformAdminModel, which line 3 destructures from a module that exports
\* { schema, getModel } (platform/models/PlatformAdmin.js lines 88-91): the
\* call throws a TypeError.
AuthOutcome(decoded) ==
  IF decoded.kind = "none" THEN "AuthenticationError"       \* lines 17-19
  ELSE IF decoded.kind = "invalid" THEN "JsonWebTokenError" \* line 22
  ELSE IF decoded.role = PlatformRole THEN "TypeError"      \* lines 25-27
  ELSE IF TokenName(decoded) = NoName THEN "AuthenticationError"  \* lines 48-50
  ELSE "getDb"                                              \* line 53

\* lines 12-53
AuthenticateStart(c, token) ==
  /\ CanStartReq(c)
  /\ IF AuthOutcome(token) = "getDb"
       THEN /\ GetDbRoom(TokenName(token))
            /\ conn' = GetDbConn(TokenName(token))
            /\ calls' = [calls EXCEPT ![c] =
                 [IdleCall EXCEPT !.op = "authenticate", !.pc = "awaitDb",
                                  !.db = TokenName(token),
                                  !.conn = GetDbAwaited(TokenName(token))]]
            /\ req' = [req EXCEPT ![c] =
                 AskDb([NoReq EXCEPT !.token = token,
                                     !.after = {d \in Calls : calls[d].pc = "done"}],
                       TokenName(token), "claim")]
       ELSE \* lines 78-86: 401 for a token error, next(error) otherwise
            /\ calls' = [calls EXCEPT ![c] =
                 [IdleCall EXCEPT !.op = "authenticate", !.pc = "done",
                   !.out = IF AuthOutcome(token) = "JsonWebTokenError"
                             THEN "401" ELSE AuthOutcome(token)]]
            /\ req' = [req EXCEPT ![c] = [NoReq EXCEPT !.token = token]]
            /\ conn' = conn
  /\ UNCHANGED <<connections, mainConnection, modelCache, store, physical,
                 registrations, lastRead, clears>>

\* lines 55-62 (authenticate) and 114-117 (optionalAuth), after getDb resolved:
\* getModel(decoded.databaseName, 'User', userSchema) is called without await,
\* so it runs on by itself (slot k2) while `User` is a promise and
\* User.findById throws a TypeError
AuthLookup(c, k2, out, pc) ==
  /\ GetModelRoom(calls[c].db, "User")
  /\ modelCache' = WithDbMap(modelCache, calls[c].db)
  /\ conn' = GetModelEntryConn(calls[c].db, "User")
  /\ calls' = [calls EXCEPT ![c].pc = pc, ![c].out = out,
                            ![k2] = GetModelEntry(calls[c].db, "User", UserSchema)]

\* lines 53-86, after `await getDb` settled
AuthenticateResume(c) ==
  /\ calls[c].op = "authenticate" /\ calls[c].pc = "awaitDb"
  /\ conn[calls[c].conn].state # "connecting"
  /\ IF conn[calls[c].conn].state = "error"
       THEN /\ calls' = [calls EXCEPT ![c].pc = "done", ![c].out = "ConnectError"]
            /\ UNCHANGED <<conn, modelCache>>
       ELSE /\ Idle # {}
            /\ AuthLookup(c, FirstIdle, "TypeError", "done")
  /\ UNCHANGED <<connections, mainConnection, store, physical, req,
                 registrations, lastRead, clears>>

\* ---------------------------------------- middlewares/auth.js: optionalAuth
\* lines 93-113; every error is swallowed by the catch of lines 128-131
OptionalAuthStart(c, token, body, query) ==
  /\ CanStartReq(c)
  /\ IF AuthOutcome(token) = "getDb"
       THEN /\ GetDbRoom(TokenName(token))
            /\ conn' = GetDbConn(TokenName(token))
            /\ calls' = [calls EXCEPT ![c] =
                 [IdleCall EXCEPT !.op = "optionalAuth", !.pc = "awaitDb",
                                  !.db = TokenName(token),
                                  !.conn = GetDbAwaited(TokenName(token))]]
            /\ req' = [req EXCEPT ![c] =
                 AskDb([NoReq EXCEPT !.token = token, !.body = body, !.query = query],
                       TokenName(token), "claim")]
       ELSE /\ calls' = [calls EXCEPT ![c] =
                 [IdleCall EXCEPT !.op = "optionalAuth", !.pc = "next",
                                  !.out = "next"]]
            /\ req' = [req EXCEPT ![c] =
                 [NoReq EXCEPT !.token = token, !.body = body, !.query = query]]
            /\ conn' = conn
  /\ UNCHANGED <<connections, mainConnection, modelCache, store, physical,
                 registrations, lastRead, clears>>

\* lines 113-131, after `await getDb` settled
OptionalAuthResume(c) ==
  /\ calls[c].op = "optionalAuth" /\ calls[c].pc = "awaitDb"
  /\ conn[calls[c].conn].state # "connecting"
  /\ IF conn[calls[c].conn].state = "error"
       THEN /\ calls' = [calls EXCEPT ![c].pc = "next", ![c].out = "next"]
            /\ UNCHANGED <<conn, modelCache>>
       ELSE /\ Idle # {}
            /\ AuthLookup(c, FirstIdle, "next", "next")
  /\ UNCHANGED <<connections, mainConnection, store, physical, req,
                 registrations, lastRead, clears>>

\* ------------------------------------------ unnamed/part_001: resolveDatabase
\* resolveDatabase with a default database for a user that carries no name
UserNameDefault(user) ==
  IF user.databaseName # NoName THEN user.databaseName
  ELSE IF user.dbName # NoName THEN user.dbName ELSE "client_a_db"

\* resolveDatabase preferring the user's dbName over its databaseName
UserNameDbNameFirst(user) ==
  IF user.dbName # NoName THEN user.dbName ELSE user.databaseName

\* line 22: req.user.databaseName || req.user.dbName
UserName(user) ==
  IF user.databaseName # NoName THEN user.databaseName ELSE user.dbName

\* lines 36-37: req.body.databaseName || req.query.databaseName
CallerName(body, query) == IF body # NoName THEN body ELSE query

\* resolveDatabase looking at the request's own databaseName first
ResolveTargetCallerFirst(user, body, query) ==
  IF CallerName(body, query) # NoName
    THEN [name |-> CallerName(body, query), from |-> "caller"]
  ELSE IF user.set /\ user.role = PlatformRole
    THEN [name |-> PlatformDb, from |-> "platform"]
  ELSE IF user.set /\ user.role \in TenantRoles /\ UserName(user) # NoName
    THEN [name |-> UserName(user), from |-> "claim"]
  ELSE [name |-> NoName, from |-> "none"]

\* resolveDatabase looking at the name the user carries before its role
ResolveTargetClaimFirst(user, body, query) ==
  IF user.set /\ user.role \in Roles /\ UserName(user) # NoName
    THEN [name |-> UserName(user), from |-> "claim"]
  ELSE IF user.set /\ user.role = PlatformRole
    THEN [name |-> PlatformDb, from |-> "platform"]
  ELSE IF CallerName(body, query) # NoName
    THEN [name |-> CallerName(body, query), from |-> "caller"]
  ELSE [name |-> NoName, from |-> "none"]

\* lines 12-43: the database the request is to use, and where the name is from
ResolveTarget(user, body, query) ==
  IF user.set /\ user.role = PlatformRole                    \* lines 13-17
    THEN [name |-> PlatformDb, from |-> "platform"]
  ELSE IF user.set /\ user.role \in TenantRoles              \* lines 20-33
    THEN IF UserName(user) = NoName
           THEN [name |-> NoName, from |-> "none"]           \* lines 24-26
           ELSE [name |-> UserName(user), from |-> "claim"]
  ELSE IF CallerName(body, query) # NoName                   \* lines 36-41
    THEN [name |-> CallerName(body, query), from |-> "caller"]
  ELSE [name |-> NoName, from |-> "none"]                    \* line 43

\* lines 10-43, the synchronous stretch for request record r in slot c
ResolveEntry(c, r) ==
  LET t == ResolveTarget(r.user, r.body, r.query)
  IN IF t.name = NoName
       THEN /\ calls' = [calls EXCEPT ![c] =
                 [IdleCall EXCEPT !.op = "resolveDatabase", !.pc = "done",
                                  !.out = "AuthenticationError"]]
            /\ req' = [req EXCEPT ![c] = r]
            /\ conn' = conn
       ELSE /\ GetDbRoom(t.name)
            /\ conn' = GetDbConn(t.name)
            /\ calls' = [calls EXCEPT ![c] =
                 [IdleCall EXCEPT !.op = "resolveDatabase", !.pc = "awaitDb",
                                  !.db = t.name, !.conn = GetDbAwaited(t.name)]]
            /\ req' = [req EXCEPT ![c] = AskDb(r, t.name, t.from)]

\* resolveDatabase as the first middleware of a route, req.user as it arrives
ResolveDatabaseStart(c, user, body, query) ==
  /\ CanStartReq(c)
  /\ ResolveEntry(c, [NoReq EXCEPT !.user = user, !.body = body, !.query = query])
  /\ UNCHANGED <<connections, mainConnection, modelCache, store, physical,
                 registrations, lastRead, clears>>

\* resolveDatabase mounted behind optionalAuth
ResolveDatabaseNext(c) ==
  /\ calls[c].op = "optionalAuth" /\ calls[c].pc = "next"
  /\ ResolveEntry(c, req[c])
  /\ UNCHANGED <<connections, mainConnection, modelCache, store, physical,
                 registrations, lastRead, clears>>

\* lines 14-16, 29-32, 38-40 after `await getDb` settled; line 45 on rejection
ResolveDatabaseResume(c) ==
  /\ calls[c].op = "resolveDatabase" /\ calls[c].pc = "awaitDb"
  /\ conn[calls[c].conn].state # "connecting"
  /\ IF conn[calls[c].conn].state = "error"
       THEN /\ calls' = [calls EXCEPT ![c].pc = "done", ![c].out = "ConnectError"]
            /\ req' = req
       ELSE /\ calls' = [calls EXCEPT ![c].pc = "done", ![c].out = "next",
                                      ![c].ret = calls[c].conn]
            /\ req' = [req EXCEPT ![c].db = calls[c].conn,
                                  ![c].databaseName = calls[c].db]
  /\ UNCHANGED <<connections, mainConnection, conn, modelCache, store, physical,
                 registrations, lastRead, clears>>

\* ------------------------------ controllers/authController.js: AuthController
\* lines 20-34: generateToken(userId, role, databaseName)
GenerateToken(role, databaseName) ==
  [kind |-> "jwt", role |-> role, databaseName |-> databaseName]

\* connectionManager.js lines 120-129: listDatabases() through mainConnection;
\* any failure is reported as "does not exist"
DatabaseExists(databaseName) ==
  /\ mainConnection # NoConn
  /\ conn[mainConnection].state = "connected"
  /\ databaseName \in physical

\* lines 161-170: validation of the body, then `await databaseExists`
RegisterCustomerStart(c, body, complete) ==
  /\ CanStartReq(c)
  /\ calls' = [calls EXCEPT ![c] =
       IF ~complete \/ body = NoName
         THEN [IdleCall EXCEPT !.op = "registerCustomer", !.pc = "done",
                               !.out = "ValidationError"]
         ELSE [IdleCall EXCEPT !.op = "registerCustomer", !.pc = "awaitExists",
                               !.db = body]]
  /\ req' = [req EXCEPT ![c] = [NoReq EXCEPT !.body = body]]
  /\ UNCHANGED <<connections, mainConnection, conn, modelCache, store, physical,
                 registrations, lastRead, clears>>

\* lines 170-176: the existence check settles; getDb only for a name that passed
RegisterCustomerExists(c) ==
  /\ calls[c].op = "registerCustomer" /\ calls[c].pc = "awaitExists"
  /\ IF DatabaseExists(calls[c].db)
       THEN /\ GetDbRoom(calls[c].db)
            /\ conn' = GetDbConn(calls[c].db)
            /\ calls' = [calls EXCEPT ![c].pc = "awaitDb",
                                      ![c].conn = GetDbAwaited(calls[c].db)]
            /\ req' = [req EXCEPT ![c] =
                 AskDb([req[c] EXCEPT !.validated = @ \cup {calls[c].db}],
                       calls[c].db, "caller")]
       ELSE /\ calls' = [calls EXCEPT ![c].pc = "done", ![c].out = "NotFoundError"]
            /\ UNCHANGED <<conn, req>>
  /\ UNCHANGED <<connections, mainConnection, modelCache, store, physical,
                 registrations, lastRead, clears>>

\* the slot record while the handler awaits its own getModel(db, name, schema)
AwaitModel(entry, pc) ==
  [entry EXCEPT !.op = "registerCustomer", !.pc = pc]

\* lines 176-179, after `await getDb` settled: getModel(databaseName, 'User', ..)
RegisterCustomerResume(c) ==
  /\ calls[c].op = "registerCustomer" /\ calls[c].pc = "awaitDb"
  /\ conn[calls[c].conn].state # "connecting"
  /\ IF conn[calls[c].conn].state = "error"
       THEN /\ calls' = [calls EXCEPT ![c].pc = "done", ![c].out = "ConnectError"]
            /\ UNCHANGED <<conn, modelCache, req>>
       ELSE /\ GetModelRoom(calls[c].db, "User")
            /\ modelCache' = WithDbMap(modelCache, calls[c].db)
            /\ conn' = GetModelEntryConn(calls[c].db, "User")
            /\ calls' = [calls EXCEPT ![c] =
                 AwaitModel(GetModelEntry(calls[c].db, "User", UserSchema),
                            "awaitUser")]
            /\ req' = [req EXCEPT ![c].db = calls[c].conn,
                                  ![c].databaseName = calls[c].db]
  /\ UNCHANGED <<connections, mainConnection, store, physical,
                 registrations, lastRead, clears>>

\* the handler's own getModel settles: a hit is already "ok", a miss binds now
OwnModelOut(cr) == IF cr.out = "ok" THEN "ok" ELSE BindOut(cr)
OwnModelConn(cr) == IF cr.out = "ok" THEN conn ELSE BindConn(cr)
OwnModelCache(cr) == IF cr.out = "ok" THEN modelCache ELSE BindCache(cr)
OwnModelRegs(cr) == IF cr.out = "ok" THEN registrations ELSE BindRegs(cr)

\* `const User = await getModel(d, 'User', userSchema)` settles and
\* `await getModel(d, 'Role', roleSchema)` is called (authController.js lines
\* 179-180, ClientDatabaseService.initializeClientDatabase lines 769-770)
OwnUserStep(c) ==
  /\ calls[c].pc = "awaitUser"
  /\ conn[calls[c].conn].state # "connecting"
  /\ registrations' = OwnModelRegs(calls[c])
  /\ IF OwnModelOut(calls[c]) # "ok"
       THEN /\ calls' = [calls EXCEPT ![c].pc = "done",
                                      ![c].out = OwnModelOut(calls[c])]
            /\ conn' = OwnModelConn(calls[c])
            /\ modelCache' = OwnModelCache(calls[c])
       ELSE LET cache2 == WithDbMap(OwnModelCache(calls[c]), calls[c].db)
                hit == DbModels(cache2, calls[c].db).models["Role"] # NoConn
            IN /\ hit \/ GetDbRoom(calls[c].db)
               /\ modelCache' = cache2
               /\ conn' = IF hit \/ GetDbHit(calls[c].db)
                            THEN OwnModelConn(calls[c])
                            ELSE [OwnModelConn(calls[c]) EXCEPT ![NewConnId] =
                                    CreateConnection(NewConnId, calls[c].db)[NewConnId]]
               /\ calls' = [calls EXCEPT ![c] =
                    [calls[c] EXCEPT !.pc = "awaitRole", !.ent = "Role",
                       !.schema = RoleSchema,
                       !.gen = DbModels(cache2, calls[c].db).gen,
                       !.out = IF hit THEN "ok" ELSE "pending",
                       !.conn = IF hit THEN DbModels(cache2, calls[c].db).models["Role"]
                                ELSE GetDbAwaited(calls[c].db),
                       !.ret = calls[c].conn]]
  /\ UNCHANGED <<connections, mainConnection, store, physical, req,
                 lastRead, clears>>

\* lines 179-180: User model obtained, getModel(databaseName, 'Role', roleSchema)
RegisterCustomerUser(c) ==
  /\ calls[c].op = "registerCustomer"
  /\ OwnUserStep(c)

\* lines 180-234: Role model obtained; existing-user check, customer role,
\* user created, token issued
RegisterCustomerRole(c) ==
  /\ calls[c].op = "registerCustomer" /\ calls[c].pc = "awaitRole"
  /\ conn[calls[c].conn].state # "connecting"
  /\ registrations' = OwnModelRegs(calls[c])
  /\ conn' = OwnModelConn(calls[c])
  /\ modelCache' = OwnModelCache(calls[c])
  /\ LET userDb == ModelDb(calls[c].ret)        \* where the User model reads/writes
         roleDb == ModelDb(calls[c].conn)       \* where the Role model reads/writes
         userDoc == [via |-> calls[c].db, ent |-> "User"]
         roleDoc == [via |-> calls[c].db, ent |-> "Role"]
     IN
     IF OwnModelOut(calls[c]) # "ok"
       THEN /\ calls' = [calls EXCEPT ![c].pc = "done",
                                      ![c].out = OwnModelOut(calls[c])]
            /\ UNCHANGED <<store, physical, req>>
     ELSE IF \E d \in store[userDb] : d.ent = "User"
       THEN \* lines 183-187
            /\ calls' = [calls EXCEPT ![c].pc = "done", ![c].out = "ValidationError"]
            /\ UNCHANGED <<store, physical, req>>
       ELSE \* lines 190-234
            /\ store' = [n \in DbNames |->
                 store[n] \cup (IF n = roleDb THEN {roleDoc} ELSE {})
                          \cup (IF n = userDb THEN {userDoc} ELSE {})]
            /\ physical' = physical \cup {userDb, roleDb}
            /\ calls' = [calls EXCEPT ![c].pc = "done", ![c].out = "201"]
            /\ req' = [req EXCEPT ![c].issued = GenerateToken("customer", calls[c].db)]
  /\ UNCHANGED <<connections, mainConnection, lastRead, clears>>

Next ==
  \/ \E c \in Calls, n \in DbNames : GetDbStart(c, n)
  \/ \E k \in Conns : ConnectSucceeds(k)
  \/ \E k \in Conns : ConnectFails(k)
  \/ \E c \in Calls : GetDbReturn(c)
  \/ \E k \in Conns : Disconnected(k)
  \/ \E c \in Calls, n \in DbNames : CloseDatabaseStart(c, n)
  \/ \E c \in Calls : CloseDatabaseDone(c)
  \/ \E c \in Calls, n \in DbNames, e \in DirectEntities, s \in Schemas :
       GetModelStart(c, n, e, s)
  \/ \E c \in Calls : GetModelResume(c)
  \/ \E n \in DbNames : ClearModels(n)
  \/ ClearAllModels
  \/ \E c \in Calls : DocWrite(c)
  \/ \E c \in Calls : DocRead(c)

Spec == Init /\ [][Next]_vars

\* getModel calls alone, with arguments that may be missing and connections
\* that may fail
ModelNext ==
  \/ \E c \in Calls, n \in DbNames, e \in DirectEntities, s \in Schemas :
       GetModelStart(c, n, e, s)
  \/ \E c \in Calls, n \in {NoName} \cup DbNames, e \in {NoName} \cup DirectEntities,
        s \in {NoSchema} \cup Schemas : GetModelMissingArgument(c, n, e, s)
  \/ \E c \in Calls : GetModelResume(c)
  \/ \E k \in Conns : ConnectSucceeds(k)
  \/ \E k \in Conns : ConnectFails(k)

ModelSpec == Init /\ [][ModelNext]_vars

\* requests, with the connection and model work they start
ReqNext ==
  \/ \E c \in Calls, t \in Tokens : AuthenticateStart(c, t)
  \/ \E c \in Calls : AuthenticateResume(c)
  \/ \E c \in Calls, t \in Tokens, b \in BodyNames, q \in QueryNames :
       OptionalAuthStart(c, t, b, q)
  \/ \E c \in Calls : OptionalAuthResume(c)
  \/ \E c \in Calls, u \in Users, b \in BodyNames, q \in QueryNames :
       ResolveDatabaseStart(c, u, b, q)
  \/ \E c \in Calls : ResolveDatabaseNext(c)
  \/ \E c \in Calls : ResolveDatabaseResume(c)
  \/ \E c \in Calls, b \in {NoName} \cup TenantDbs, ok \in BOOLEAN :
       RegisterCustomerStart(c, b, ok)
  \/ \E c \in Calls : RegisterCustomerExists(c)
  \/ \E c \in Calls : RegisterCustomerResume(c)
  \/ \E c \in Calls : RegisterCustomerUser(c)
  \/ \E c \in Calls : RegisterCustomerRole(c)
  \/ \E k \in Conns : ConnectSucceeds(k)
  \/ \E k \in Conns : ConnectFails(k)
  \/ \E c \in Calls : GetModelResume(c)

ReqSpec == Init /\ [][ReqNext]_vars

\* ======================================================================
\* Start-up and connection events
\* ======================================================================
\* constructor, lines 11-15: no connection yet, mainConnection null
Constructed ==
  /\ conn = [k \in Conns |-> FreshConn]
  /\ connections = [n \in DbNames |-> NoConn]
  /\ mainConnection = NoConn
  /\ modelCache = [n \in DbNames |-> NoMap]
  /\ store = [n \in DbNames |-> {}]
  /\ physical = {PlatformDb, "client_a_db"}
  /\ calls = [c \in Calls |-> IdleCall]
  /\ req = [c \in Calls |-> NoReq]
  /\ registrations = [k \in Conns |-> [e \in Entities |-> 0]]
  /\ lastRead = [via |-> NoName, docs |-> {}]
  /\ clears = 0

\* connectDB (config/database.js lines 7-9) calls initialize, lines 21-33:
\* createConnection(platformUri) begun
InitializeStart ==
  /\ mainConnection = NoConn /\ Used = {}
  /\ conn' = CreateConnection(MainConn, PlatformDb)
  /\ UNCHANGED <<connections, mainConnection, modelCache, store, physical, calls,
                 req, registrations, lastRead, clears>>

\* lines 33-53: connected; mainConnection set and stored under 'platform_db';
\* the handlers registered at lines 45-51 only log
InitializeSucceeds ==
  /\ mainConnection = NoConn /\ conn[MainConn].state = "connecting"
  /\ conn' = [conn EXCEPT ![MainConn].state = "connected"]
  /\ mainConnection' = MainConn
  /\ connections' = [connections EXCEPT ![PlatformDb] = MainConn]
  /\ UNCHANGED <<modelCache, store, physical, calls, req, registrations,
                 lastRead, clears>>

\* lines 54-57, then config/database.js lines 11-14: initialize rethrows,
\* connectDB logs the error and calls process.exit(1)
InitializeFails ==
  /\ mainConnection = NoConn /\ conn[MainConn].state = "connecting"
  /\ conn' = [conn EXCEPT ![MainConn].state = "error"]
  /\ UNCHANGED <<connections, mainConnection, modelCache, store, physical, calls,
                 req, registrations, lastRead, clears>>

\* config/database.js line 13 was reached: the process is gone
ProcessExited == mainConnection = NoConn /\ conn[MainConn].state = "error"

\* connectDB has returned: the server takes calls
Started == mainConnection # NoConn

LifeNext ==
  \/ InitializeStart
  \/ InitializeSucceeds
  \/ InitializeFails
  \/ \E c \in Calls, n \in DbNames : Started /\ GetDbStart(c, n)
  \/ \E k \in Conns : Started /\ ConnectSucceeds(k)
  \/ \E k \in Conns : Started /\ ConnectFails(k)
  \/ \E c \in Calls : Started /\ GetDbReturn(c)
  \/ \E k \in Conns : Started /\ Disconnected(k)
  \/ \E k \in Conns : Started /\ ErrorEvent(k)
  \/ \E c \in Calls, n \in DbNames : Started /\ CloseDatabaseStart(c, n)
  \/ \E c \in Calls : Started /\ CloseDatabaseDone(c)
  \/ \E c \in Calls : Started /\ CloseAllStart(c)
  \/ \E k \in Conns, ok \in BOOLEAN : Started /\ CloseSettles(k, ok)
  \/ \E c \in Calls : Started /\ CloseAllDone(c)

LifeSpec == Constructed /\ [][LifeNext]_vars

\* ======================================================================
\* Requests whose client goes away
\* ======================================================================
\* an abort that takes the connection being created with it
AbortConnCancels(c) ==
  [conn EXCEPT ![calls[c].conn].state = IF @ = "connecting" THEN "cancelled" ELSE @]

\* what an aborted request does to the connection its getDb is creating:
\* nothing. getDb (lines 64-108) takes no signal and registers nothing on the
\* request; createConnection (line 84) and the continuation of lines 89-103
\* belong to the getDb invocation
AbortConn(c) == conn

\* the client of request c closes its socket while the request awaits getDb
\* for a connection that is being created; no handler listens for it
\* (part_001 lines 10-47), so the middleware stays suspended on its await
Abort(c) ==
  /\ calls[c].op = "resolveDatabase" /\ calls[c].pc = "awaitDb"
  /\ conn[calls[c].conn].state = "connecting"
  /\ ~req[c].aborted
  /\ req' = [req EXCEPT ![c].aborted = TRUE]
  /\ conn' = AbortConn(c)
  /\ UNCHANGED <<connections, mainConnection, modelCache, store, physical, calls,
                 registrations, lastRead, clears>>

\* req.user of the requests that are aborted: none, or a tenant user
AbortUsers ==
  {NoUser, [set |-> TRUE, role |-> "staff", databaseName |-> "client_a_db",
            dbName |-> NoName]}

AbortNext ==
  \/ \E c \in Calls, u \in AbortUsers, b \in BodyNames :
       ResolveDatabaseStart(c, u, b, NoName)
  \/ \E c \in Calls : ResolveDatabaseResume(c)
  \/ \E c \in Calls : Abort(c)
  \/ \E c \in Calls, n \in DbNames : GetDbStart(c, n)
  \/ \E c \in Calls : GetDbReturn(c)
  \/ \E k \in Conns : ConnectSucceeds(k)
  \/ \E k \in Conns : ConnectFails(k)
  \/ \E k \in Conns : Disconnected(k)

\* mongoose.createConnection settles: the driver connects or gives up after
\* its server selection timeout, and the event loop then runs the
\* continuation of getDb
AbortSpec ==
  /\ Init /\ [][AbortNext]_vars
  /\ \A k \in Conns : WF_vars(ConnectSucceeds(k) \/ ConnectFails(k))

\* ======================================================================
\* Provisioning: ClientDatabaseService (services/clientDatabaseService, in
\* src/src/services/invoiceService.js lines 670-879) and createTenant
\* ======================================================================
Owners == {"owner1", "owner2"}           \* the owner's email
UniqueIds == {"a", "b"}                  \* crypto.randomBytes(4).toString('hex')

\* lines 688-693: `client_${uniqueId}_db`
GenerateDatabaseName(uniqueId) ==
  IF uniqueId = "a" THEN "client_a_db" ELSE "client_b_db"

\* a system role of a tenant database (initializeClientDatabase lines 773-824)
RoleDoc(databaseName) == [via |-> databaseName, ent |-> "Role", email |-> NoName]

\* the owner's account in a tenant database (lines 830-846)
OwnerDoc(databaseName, email) == [via |-> databaseName, ent |-> "User", email |-> email]

\* the ClientAdmin record of platform_db (createClientDatabase lines 727-739)
ClientAdminDoc(databaseName, email) ==
  [via |-> PlatformDb, ent |-> "ClientAdmin", email |-> email,
   databaseName |-> databaseName]

\* the ClientDatabaseMap record of platform_db (lines 743-747)
ClientDatabaseMapDoc(databaseName, email) ==
  [via |-> PlatformDb, ent |-> "ClientDatabaseMap", email |-> email,
   databaseName |-> databaseName]

\* both platform records of a tenant
TenantDocs(databaseName, email) ==
  {ClientAdminDoc(databaseName, email), ClientDatabaseMapDoc(databaseName, email)}

\* a provisioning that writes the platform records as it creates the collections
PlatformRecordsFirst(stage, databaseName, email) ==
  IF stage = "collections" THEN TenantDocs(databaseName, email) ELSE {}

\* a provisioning that writes the platform records after the owner's account
PlatformRecordsLast(stage, databaseName, email) ==
  IF stage = "admin" THEN TenantDocs(databaseName, email) ELSE {}

\* a provisioning that fails between its two platform records: ClientAdmin
\* written, ClientDatabaseMap not
PlatformRecordsAdminOnly(stage, databaseName, email) ==
  IF stage = "admin" THEN {ClientAdminDoc(databaseName, email)} ELSE {}

\* the platform records a run writes in the step `stage` of createClientDatabase:
\* none in any step, since ClientAdmin.create (line 727) and
\* ClientDatabaseMap.create (line 743) come after line 726, which throws
PlatformRecordsAt(stage, databaseName, email) == {}

\* the documents of the cluster after `recs` were written to platform_db
WithPlatformRecords(st, recs) == [st EXCEPT ![PlatformDb] = @ \cup recs]

ExistingDb == "client_a_db"              \* a database the cluster holds at the start
ExistingOwner == "owner2"                \* the owner of the tenant of the start

\* the cluster when provisioning starts: no tenant database yet, a database
\* named client_a_db, or a complete tenant in client_a_db with its records
ProvInit ==
  /\ conn = [k \in Conns |->
       IF k = MainConn
         THEN [name |-> PlatformDb,
               db |-> TargetDb(DbUri(PlatformDb)), state |-> "connected",
               handlers |-> FALSE, models |-> [e \in Entities |-> NoSchema]]
         ELSE FreshConn]
  /\ connections = [n \in DbNames |-> IF n = PlatformDb THEN MainConn ELSE NoConn]
  /\ mainConnection = MainConn
  /\ modelCache = [n \in DbNames |-> NoMap]
  /\ \E pre \in {"none", "database", "tenant"} :
       /\ physical = IF pre = "none" THEN {PlatformDb} ELSE {PlatformDb, ExistingDb}
       /\ store = [n \in DbNames |->
            IF pre # "tenant" THEN {}
            ELSE IF n = ExistingDb
              THEN {RoleDoc(ExistingDb), OwnerDoc(ExistingDb, ExistingOwner)}
            ELSE IF n = PlatformDb THEN TenantDocs(ExistingDb, ExistingOwner)
            ELSE {}]
  /\ calls = [c \in Calls |-> IdleCall]
  /\ req = [c \in Calls |-> NoReq]
  /\ registrations = [k \in Conns |-> [e \in Entities |-> 0]]
  /\ lastRead = [via |-> NoName, docs |-> {}]
  /\ clears = 0

\* clientAdminController.js lines 1600-1623: SuperAdminController.createTenant.
\* After the validation of the body, line 1623 calls getClientAdminModel, which
\* line 1213 destructures from a module that exports { schema, getModel }
\* (platform/models/ClientAdmin.js lines 97-100): the call throws a TypeError
\* and line 1678 hands it to next(error).
CreateTenant(c, email, complete) ==
  /\ CanStart(c)
  /\ calls' = [calls EXCEPT ![c] =
       [IdleCall EXCEPT !.op = "createTenant", !.pc = "done",
                        !.out = IF complete THEN "TypeError" ELSE "ValidationError"]]
  /\ req' = [req EXCEPT ![c] = [NoReq EXCEPT !.owner = email]]
  /\ UNCHANGED <<connections, mainConnection, conn, modelCache, store, physical,
                 registrations, lastRead, clears>>

\* authController.js lines 40-49 and 152-154: AuthController.login. After the
\* check of email and password, line 49 calls getPlatformAdminModel, which
\* line 2 destructures from a module that exports { schema, getModel }
\* (platform/models/PlatformAdmin.js lines 88-91): the call throws a TypeError
\* and line 153 hands it to next(error); no token is generated
Login(c, email, complete) ==
  /\ CanStart(c)
  /\ calls' = [calls EXCEPT ![c] =
       [IdleCall EXCEPT !.op = "login", !.pc = "done",
                        !.out = IF complete THEN "TypeError" ELSE "ValidationError"]]
  /\ req' = [req EXCEPT ![c] = [NoReq EXCEPT !.owner = email]]
  /\ UNCHANGED <<connections, mainConnection, conn, modelCache, store, physical,
                 registrations, lastRead, clears>>

\* clientAdminController.js lines 1685-1706: SuperAdminController.updateTenant
\* would assign the whole body, a databaseName included, to the record it
\* finds, but `Tenant` (line 1690) is not defined in the module: the handler
\* ends in a ReferenceError before it reads or writes anything
UpdateTenant(c, databaseName) ==
  /\ CanStart(c)
  /\ calls' = [calls EXCEPT ![c] =
       [IdleCall EXCEPT !.op = "updateTenant", !.pc = "done",
                        !.out = "ReferenceError"]]
  /\ req' = [req EXCEPT ![c] = [NoReq EXCEPT !.body = databaseName]]
  /\ UNCHANGED <<connections, mainConnection, conn, modelCache, store, physical,
                 registrations, lastRead, clears>>

\* createClientDatabase lines 705-714 and createDatabase lines 134-137: the
\* names are generated and `await this.databaseExists(databaseName)` begins
CreateClientDatabaseStart(c, email, uniqueId) ==
  /\ CanStartReq(c)
  /\ calls' = [calls EXCEPT ![c] =
       [IdleCall EXCEPT !.op = "createClientDatabase", !.pc = "awaitExists",
                        !.db = GenerateDatabaseName(uniqueId)]]
  /\ req' = [req EXCEPT ![c] =
       [NoReq EXCEPT !.owner = email,
                     !.after = {d \in Calls : calls[d].pc = "done"}]]
  /\ UNCHANGED <<connections, mainConnection, conn, modelCache, store, physical,
                 registrations, lastRead, clears>>

\* createDatabase lines 137-145: the existence check settles; getDb is called
\* with the generated name whether the database exists (line 140) or not
\* (line 145)
CreateDatabaseExists(c) ==
  /\ calls[c].op = "createClientDatabase" /\ calls[c].pc = "awaitExists"
  /\ GetDbRoom(calls[c].db)
  /\ conn' = GetDbConn(calls[c].db)
  /\ calls' = [calls EXCEPT ![c].pc = "awaitDb",
                            ![c].conn = GetDbAwaited(calls[c].db)]
  /\ req' = [req EXCEPT ![c] =
       AskDb([req[c] EXCEPT !.existed = DatabaseExists(calls[c].db)],
             calls[c].db, "generated")]
  /\ UNCHANGED <<connections, mainConnection, modelCache, store, physical,
                 registrations, lastRead, clears>>

\* the slot record while createClientDatabase awaits its own getModel
ProvAwaitModel(entry, pc) ==
  [entry EXCEPT !.op = "createClientDatabase", !.pc = pc]

\* ClientDatabaseService.initializeClientDatabase lines 764-769:
\* `await getModel(databaseName, 'User', userSchema)` is called
InitializeEntry(c) ==
  /\ GetModelRoom(calls[c].db, "User")
  /\ modelCache' = WithDbMap(modelCache, calls[c].db)
  /\ conn' = GetModelEntryConn(calls[c].db, "User")
  /\ calls' = [calls EXCEPT ![c] =
       ProvAwaitModel(GetModelEntry(calls[c].db, "User", UserSchema), "awaitUser")]

\* createDatabase after `await getDb` settled: rethrown on failure (lines
\* 152-155); for a database that exists the connection is returned (line 140)
\* and createClientDatabase goes on to initialize it (line 717); otherwise
\* initializeClientDatabase(connection) starts writing (lines 148, 170-173)
CreateDatabaseResume(c) ==
  /\ calls[c].op = "createClientDatabase" /\ calls[c].pc = "awaitDb"
  /\ conn[calls[c].conn].state # "connecting"
  /\ IF conn[calls[c].conn].state = "error"
       THEN /\ calls' = [calls EXCEPT ![c].pc = "done", ![c].out = "ConnectError"]
            /\ UNCHANGED <<conn, modelCache>>
     ELSE IF req[c].existed
       THEN InitializeEntry(c)
       ELSE /\ calls' = [calls EXCEPT ![c].pc = "initCollections"]
            /\ UNCHANGED <<conn, modelCache>>
  /\ UNCHANGED <<connections, mainConnection, store, physical, req,
                 registrations, lastRead, clears>>

\* connectionManager.js lines 161-187 and 150-151: a document is inserted into
\* and deleted from every base collection, which brings the database into
\* being (a failing insert is only logged, lines 176-179); then
\* createClientDatabase line 717 starts initializeClientDatabase (line 769)
CreateDatabaseCollections(c) ==
  /\ calls[c].op = "createClientDatabase" /\ calls[c].pc = "initCollections"
  /\ LET k == calls[c].conn
         written == conn[k].state = "connected"
     IN /\ physical' = IF written THEN physical \cup {ModelDb(k)} ELSE physical
        /\ req' = [req EXCEPT ![c].created =
             IF written /\ ModelDb(k) \notin physical THEN @ \cup {ModelDb(k)} ELSE @]
  /\ store' = WithPlatformRecords(store,
                 PlatformRecordsAt("collections", calls[c].db, req[c].owner))
  /\ InitializeEntry(c)
  /\ UNCHANGED <<connections, mainConnection, registrations, lastRead, clears>>

\* initializeClientDatabase lines 769-770
InitializeUser(c) ==
  /\ calls[c].op = "createClientDatabase"
  /\ OwnUserStep(c)

\* initializeClientDatabase lines 770-824: Role model obtained; each system
\* role is looked up and created if it is missing; a write the database
\* refuses (~ok) is rethrown at lines 849-852
InitializeRoles(c, ok) ==
  /\ calls[c].op = "createClientDatabase" /\ calls[c].pc = "awaitRole"
  /\ conn[calls[c].conn].state # "connecting"
  /\ registrations' = OwnModelRegs(calls[c])
  /\ conn' = OwnModelConn(calls[c])
  /\ modelCache' = OwnModelCache(calls[c])
  /\ LET roleDb == ModelDb(calls[c].conn)
         roleDoc == [via |-> calls[c].db, ent |-> "Role", email |-> NoName]
     IN IF OwnModelOut(calls[c]) # "ok" \/ ~ok
          THEN /\ calls' = [calls EXCEPT ![c].pc = "done",
                 ![c].out = IF OwnModelOut(calls[c]) # "ok"
                              THEN OwnModelOut(calls[c]) ELSE "WriteError"]
               /\ UNCHANGED <<store, physical, req>>
          ELSE /\ store' = WithPlatformRecords(
                             [store EXCEPT ![roleDb] = @ \cup {roleDoc}],
                             PlatformRecordsAt("roles", calls[c].db, req[c].owner))
               /\ physical' = physical \cup {roleDb}
               /\ req' = [req EXCEPT ![c].created =
                    IF roleDb \notin physical THEN @ \cup {roleDb} ELSE @]
               /\ calls' = [calls EXCEPT ![c].pc = "awaitAdmin"]
  /\ UNCHANGED <<connections, mainConnection, lastRead, clears>>

\* initializeClientDatabase lines 830-853: User.create for the owner (the
\* email is unique per database, User model lines 90-91); then
\* createClientDatabase line 726 calls getClientAdminModel, which line 672
\* destructures from a module that exports { schema, getModel }: the call
\* throws a TypeError, rethrown at lines 755-758, and lines 727-747 (the
\* ClientAdmin and ClientDatabaseMap records) are never reached; a write the
\* database refuses (~ok) is rethrown at lines 849-852
InitializeAdmin(c, ok) ==
  /\ calls[c].op = "createClientDatabase" /\ calls[c].pc = "awaitAdmin"
  /\ LET userDb == ModelDb(calls[c].ret)
         userDoc == [via |-> calls[c].db, ent |-> "User", email |-> req[c].owner]
     IN IF \E d \in store[userDb] : d.ent = "User" /\ d.email = req[c].owner
          THEN /\ calls' = [calls EXCEPT ![c].pc = "done", ![c].out = "DuplicateKey"]
               /\ store' = store
        ELSE IF ~ok
          THEN /\ calls' = [calls EXCEPT ![c].pc = "done", ![c].out = "WriteError"]
               /\ store' = store
          ELSE /\ store' = WithPlatformRecords(
                             [store EXCEPT ![userDb] = @ \cup {userDoc}],
                             PlatformRecordsAt("admin", calls[c].db, req[c].owner))
               /\ calls' = [calls EXCEPT ![c].pc = "done", ![c].out = "TypeError"]
  /\ UNCHANGED <<connections, mainConnection, conn, modelCache, physical, req,
                 registrations, lastRead, clears>>

ProvNext ==
  \/ \E c \in Calls, o \in Owners, ok \in BOOLEAN : CreateTenant(c, o, ok)
  \/ \E c \in Calls, n \in TenantDbs : UpdateTenant(c, n)
  \/ \E c \in Calls, o \in Owners, ok \in BOOLEAN : Login(c, o, ok)
  \/ \E c \in Calls, o \in Owners, u \in UniqueIds : CreateClientDatabaseStart(c, o, u)
  \/ \E c \in Calls : CreateDatabaseExists(c)
  \/ \E c \in Calls : CreateDatabaseResume(c)
  \/ \E c \in Calls : CreateDatabaseCollections(c)
  \/ \E c \in Calls : InitializeUser(c)
  \/ \E c \in Calls, ok \in BOOLEAN : InitializeRoles(c, ok)
  \/ \E c \in Calls, ok \in BOOLEAN : InitializeAdmin(c, ok)
  \/ \E k \in Conns : ConnectSucceeds(k)
  \/ \E k \in Conns : ConnectFails(k)

ProvSpec == ProvInit /\ [][ProvNext]_vars

\* ======================================================================
\* Properties
\* ======================================================================
Evicted(n) ==
  \E k \in Conns : conn[k].name = n
                   /\ conn[k].state \in {"error", "disconnected", "closing", "closed"}

GotDb(c) == calls[c].op = "getDb" /\ calls[c].pc = "done" /\ calls[c].out = "ok"

\* C1: concurrent getDb(n) calls for a name with no cached handle share one
\* connection creation: at no time are two creations for the same name in
\* flight, and (as long as nothing of n was evicted or failed) all the
\* callers receive the identical handle.
C1_ConcurrentResolveCreatesOne ==
  /\ \A k1, k2 \in Conns :
       (conn[k1].state = "connecting" /\ conn[k2].state = "connecting"
        /\ conn[k1].name = conn[k2].name) => k1 = k2
  /\ \A c1, c2 \in Calls :
       (GotDb(c1) /\ GotDb(c2) /\ calls[c1].db = calls[c2].db
        /\ ~Evicted(calls[c1].db)) => calls[c1].ret = calls[c2].ret

\* C2: at most one live (connected) connection per database name, counting
\* every connection getDb created and not only the registry's entry.
C2_OneLiveHandlePerName ==
  \A k1, k2 \in Conns :
    (conn[k1].state = "connected" /\ conn[k2].state = "connected"
     /\ conn[k1].name = conn[k2].name) => k1 = k2

\* C3: every model cached under (d, e), and every model a getModel(d, e, s)
\* call returned, is bound to a connection whose target database is d.
C3_BindingOnOwnDatabase ==
  /\ \A d \in DbNames, e \in Entities :
       (modelCache[d].has /\ modelCache[d].models[e] # NoConn)
         => ModelDb(modelCache[d].models[e]) = d
  /\ \A c \in Calls : HoldsModel(c) => ModelDb(calls[c].ret) = calls[c].db

\* the case of C3: two tenants hold cached models while one of them has had
\* its connection evicted
C3_Witness ==
  \E c1, c2, c3 \in Calls :
    /\ HoldsModel(c1) /\ HoldsModel(c2) /\ calls[c1].db # calls[c2].db
    /\ calls[c3].op = "closeDatabase" /\ calls[c3].pc = "done"
    /\ calls[c3].conn # NoConn
    /\ modelCache[calls[c1].db].models[calls[c1].ent] = calls[c1].ret

\* C4: a document written through getModel(A, e, s) is never returned by a
\* query through getModel(B, e, s) for B # A: every document a physical
\* database holds was written through a model requested for that database,
\* and a query returns only documents written under the querying name.
C4_WritesDisjointAcrossTenants ==
  /\ \A n \in DbNames : \A d \in store[n] : d.via = n
  /\ \A d \in lastRead.docs : d.via = lastRead.via

\* the case of C4: both tenants have written and a query through one of them
\* has returned its document
C4_Witness ==
  /\ \A n \in TenantDbs : store[n] # {}
  /\ lastRead.docs # {}

\* C5: getModel is idempotent per (databaseName, entityName): all calls for
\* the same pair, repeated or concurrent, return the same model object (as
\* long as no connection of that database was evicted or failed).
C5_GetModelSameObject ==
  \A c1, c2 \in Calls :
    (HoldsModel(c1) /\ HoldsModel(c2) /\ calls[c1].db = calls[c2].db
     /\ calls[c1].ent = calls[c2].ent /\ ~Evicted(calls[c1].db))
      => calls[c1].ret = calls[c2].ret

\* C6: registration happens at most once per (connection, entityName): the
\* data-mapping layer is never asked to register a name the connection has.
C6_RegisterAtMostOnce ==
  \A k \in Conns, e \in Entities : registrations[k][e] <= 1

\* the case of C6: a getModel call with a second schema, made after
\* clearModels dropped the cache, returned the binding that survived on the
\* connection
C6_Witness ==
  \E c1, c2 \in Calls :
    /\ HoldsModel(c1) /\ HoldsModel(c2) /\ c1 # c2
    /\ calls[c1].ret = calls[c2].ret /\ calls[c1].ent = calls[c2].ent
    /\ calls[c1].schema # calls[c2].schema
    /\ calls[c1].gen # calls[c2].gen
    /\ clears > 0
    /\ registrations[calls[c1].ret][calls[c1].ent] = 1

\* a finished getModel call whose schema differs from the one bound under its
\* entity name on the connection it resolved
SchemaMismatch(c) ==
  /\ calls[c].op = "getModel" /\ calls[c].pc = "done"
  /\ calls[c].conn # NoConn
  /\ conn[calls[c].conn].models[calls[c].ent] \notin {NoSchema, calls[c].schema}

\* C7 (as claimed): getModel(d, e, s2) when e is already bound on d's
\* connection with a different schema s1 ends in ModelConflict.
C7_MismatchEndsInModelConflict ==
  \A c \in Calls : SchemaMismatch(c) => calls[c].out = OverwriteModelError

\* C7 (amended): getModel(d, e, s2) when e is already bound on d's connection
\* with a different schema s1 returns the existing model, still bound with
\* s1, and no getModel call ends in ModelConflict.
C7_MismatchReturnsExisting ==
  /\ \A c \in Calls : SchemaMismatch(c)
       => calls[c].out = "ok" /\ calls[c].ret = calls[c].conn
  /\ \A c \in Calls : calls[c].out # OverwriteModelError

\* the case of C7: a call with schema s2 finished on a connection where the
\* name is bound with s1
C7_Witness ==
  \E c \in Calls : SchemaMismatch(c) /\ calls[c].out = "ok"
                   /\ calls[c].schema = "s2"

\* a request whose tenant-role credential carries no database name: the
\* verified token for authenticate, req.user for resolveDatabase
TenantNoName(c) ==
  \/ /\ calls[c].op = "authenticate"
     /\ req[c].token.kind = "jwt" /\ req[c].token.role \in TenantRoles
     /\ TokenName(req[c].token) = NoName
  \/ /\ calls[c].op = "resolveDatabase"
     /\ req[c].user.set /\ req[c].user.role \in TenantRoles
     /\ req[c].user.databaseName = NoName /\ req[c].user.dbName = NoName

HasRoleUser(r) == r.user.set /\ r.user.role \in Roles

\* the name comes from the request's credential: the platform sentinel for a
\* platform-role user, the name carried by a tenant-role user or verified token
FromCredential(r) ==
  \/ r.user.set /\ r.user.role = PlatformRole /\ r.asked = PlatformDb
  \/ r.user.set /\ r.user.role \in TenantRoles /\ r.asked = UserName(r.user)
  \/ ~r.user.set /\ r.token.kind = "jwt" /\ r.token.role # PlatformRole
       /\ r.asked = TokenName(r.token)

C10_CallerNameValidatedFirst ==
  \A c \in Calls :
    (req[c].from = "caller" /\ req[c].asked # NoName)
      => req[c].asked \in req[c].validated

\* ---------------------------------------------------------------- C11
\* the request has reached DatabaseResolved: resolveDatabase attached req.db
DatabaseResolved(c) == calls[c].op = "resolveDatabase" /\ req[c].db # NoConn

\* the request has passed CredentialVerified: an authenticator verified its
\* credential and attached req.user
CredentialVerified(c) == req[c].user.set

\* the request failed at credential verification: its token did not verify
CredentialRejected(c) == req[c].token.kind = "invalid"

\* C11: the stages are passed in order: no request reaches DatabaseResolved
\* without having passed CredentialVerified, and a request that failed at
\* credential verification enters no later stage (no getDb call, no req.db).
C11_StagesInOrder ==
  \A c \in Calls :
    /\ DatabaseResolved(c) => CredentialVerified(c)
    /\ CredentialRejected(c) => req[c].asked = NoName /\ req[c].db = NoConn

\* ---------------------------------------------------------------- C12
\* a request with a platform-role credential: the verified token for
\* authenticate / optionalAuth, req.user for resolveDatabase
PlatformCredential(c) ==
  \/ /\ calls[c].op \in {"authenticate", "optionalAuth"}
     /\ req[c].token.kind = "jwt" /\ req[c].token.role = PlatformRole
  \/ /\ calls[c].op = "resolveDatabase"
     /\ req[c].user.set /\ req[c].user.role = PlatformRole

TenantCredential(c, x) ==
  /\ x # NoName
  /\ \/ /\ calls[c].op \in {"authenticate", "optionalAuth"}
        /\ req[c].token.kind = "jwt" /\ req[c].token.role \in TenantRoles
        /\ TokenName(req[c].token) = x
     \/ /\ calls[c].op = "resolveDatabase"
        /\ req[c].user.set /\ req[c].user.role \in TenantRoles
        /\ req[c].user.databaseName = x

\* the names request c uses are all x
UsesOnly(c, x) ==
  /\ req[c].asked = x /\ req[c].from = "claim"
  /\ calls[c].db = x
  /\ conn[calls[c].conn].name = x
  /\ req[c].databaseName \in {NoName, x}
  /\ (calls[c].op = "resolveDatabase" /\ calls[c].out = "next") =>
       /\ req[c].databaseName = x
       /\ conn[req[c].db].name = x /\ conn[req[c].db].db = x

C16_NoBindingOnEvictedHandle ==
  \A d \in DbNames, e \in Entities :
    (modelCache[d].has /\ modelCache[d].models[e] # NoConn)
      => conn[modelCache[d].models[e]].state \notin {"disconnected", "closed"}

\* ---------------------------------------------------------------- C15
\* C15: when a cached handle that getDb created emits an error event or a
\* disconnected event, its entry is evicted: the registry holds no handle
\* that has emitted either event.
C15_EventEvictsEntry ==
  \A n \in DbNames :
    (connections[n] # NoConn /\ conn[connections[n]].handlers)
      => conn[connections[n]].state \notin {"faulted", "disconnected"}

\* ---------------------------------------------------------------- C17
\* C17: when establishing a connection fails, for a tenant database or for
\* the platform database, the failure is surfaced to the caller as an error,
\* nothing is cached for the name, and the process keeps running.
C17_ConnectFailureSurfaced ==
  /\ ~ProcessExited
  /\ \A n \in DbNames :
       connections[n] # NoConn => conn[connections[n]].state # "error"
  /\ \A c \in Calls :
       (calls[c].op = "getDb" /\ calls[c].pc = "done"
        /\ calls[c].conn # NoConn /\ conn[calls[c].conn].state = "error")
         => calls[c].out = "ConnectError" /\ calls[c].ret = NoConn

\* ---------------------------------------------------------------- C18
\* the operation in slot c has ended, and the connection it awaited could not
\* be established (the spec's DatabaseUnavailable was raised inside it)
EndedOnFailedConnection(c) ==
  /\ calls[c].op \in {"getDb", "getModel", "authenticate", "optionalAuth",
                      "resolveDatabase", "registerCustomer"}
  /\ calls[c].pc \in {"done", "next"}
  /\ calls[c].conn # NoConn /\ conn[calls[c].conn].state = "error"

\* C18: an error raised inside the core is never converted into a default or
\* success outcome: an operation in which a connection could not be
\* established ends in that connection error, not in a normal return or in a
\* call of next() without error.
C18_ErrorsPropagate ==
  \A c \in Calls : EndedOnFailedConnection(c) => calls[c].out = "ConnectError"

\* ---------------------------------------------------------------- C19
\* C19: a provisioning run whose generated identifier names a database that
\* already exists does not proceed with that identifier: it asks for no
\* connection under it and, having generated only colliding identifiers,
\* ends in ProvisioningFailed.
C19_CollisionNotUsed ==
  \A c \in Calls :
    (calls[c].op = "createClientDatabase" /\ req[c].existed) =>
      /\ req[c].asked # calls[c].db
      /\ calls[c].pc = "done" => calls[c].out = "ProvisioningFailed"

\* ---------------------------------------------------------------- C20
\* C20: two provisioning runs for the same owner email, sequential or
\* overlapping, bring at most one physical database into being, and when
\* both have run through the creation of the owner's account one of them
\* has failed with a uniqueness violation.
C20_SameOwnerOneDatabase ==
  \A c1, c2 \in Calls :
    (c1 # c2 /\ calls[c1].op = "createClientDatabase"
     /\ calls[c2].op = "createClientDatabase" /\ req[c1].owner = req[c2].owner) =>
      /\ Cardinality(req[c1].created \cup req[c2].created) <= 1
      /\ (calls[c1].out \in {"TypeError", "DuplicateKey"}
          /\ calls[c2].out \in {"TypeError", "DuplicateKey"}) =>
           "DuplicateKey" \in {calls[c1].out, calls[c2].out}

\* ---------------------------------------------------------------- C21
\* the platform records that name a tenant database
TenantRecords ==
  {r \in store[PlatformDb] : r.ent \in {"ClientAdmin", "ClientDatabaseMap"}}

\* the initialization of database d for the owner `email` has completed: the
\* database exists and holds the system roles and the owner's account
InitializationComplete(d, email) ==
  /\ d \in physical
  /\ RoleDoc(d) \in store[d]
  /\ OwnerDoc(d, email) \in store[d]

\* a provisioning run that failed after it had brought its database into being
FailedAfterCreation(c) ==
  /\ calls[c].op = "createClientDatabase" /\ calls[c].pc = "done"
  /\ calls[c].out # "ok"
  /\ req[c].created # {}

RetryOf(c2, c1) ==
  /\ calls[c1].op = "createClientDatabase" /\ calls[c2].op = "createClientDatabase"
  /\ c1 \in req[c2].after /\ calls[c1].out # "ok"
  /\ req[c1].owner = req[c2].owner

\* run c has ended and nothing outside the program stood in its way: the
\* generated name was free, the connection was established and the database
\* accepted every write
Unhindered(c) ==
  /\ calls[c].pc = "done"
  /\ ~req[c].existed
  /\ calls[c].out \notin {"ConnectError", "WriteError"}

\* C22: after a provisioning run failed, a retry with the same owner profile
\* can succeed: a retry that nothing outside the program hinders returns
\* successfully and leaves a complete tenant that its platform record names.
C22_RetrySucceeds ==
  \A c1, c2 \in Calls :
    (RetryOf(c2, c1) /\ Unhindered(c2)) =>
      /\ calls[c2].out = "ok"
      /\ InitializationComplete(calls[c2].db, req[c2].owner)
      /\ ClientAdminDoc(calls[c2].db, req[c2].owner) \in store[PlatformDb]

\* ---------------------------------------------------------------- C23
\* no two tenant records of one collection carry the same databaseName
UniqueDatabaseNames ==
  \A r1, r2 \in TenantRecords :
    (r1.ent = r2.ent /\ r1.databaseName = r2.databaseName) => r1 = r2

ProvisionPostcondition(c) ==
  /\ RoleDoc(calls[c].db) \in store[calls[c].db]
  /\ OwnerDoc(calls[c].db, req[c].owner) \in store[calls[c].db]
  /\ ClientDatabaseMapDoc(calls[c].db, req[c].owner) \in store[PlatformDb]

\* C24: provisioning returns successfully with the tenant complete: a run
\* that nothing outside the program hinders ends in a successful return, and
\* a run that has returned successfully has left the system roles and the
\* owner's account in the new database and the mapping for the returned
\* databaseName in the platform database.
C24_ProvisionReturnsCompleteTenant ==
  \A c \in Calls :
    calls[c].op = "createClientDatabase" =>
      /\ Unhindered(c) => calls[c].out = "ok"
      /\ calls[c].out = "ok" => ProvisionPostcondition(c)

\* ---------------------------------------------------------------- C25
\* C25: a connection creation that was started runs to completion whether or
\* not the request that started it is still there: a connection that is
\* being created is eventually either stored in the registry under its name
\* or failed.
C25_CreationCompletes ==
  \A k \in Conns :
    (conn[k].state = "connecting")
      ~> \/ conn[k].state = "error"
         \/ conn[k].name \in DbNames /\ connections[conn[k].name] = k

\* the case of C25: a request was aborted while its connection was being
\* created; the connection is now the registry's entry and a later getDb
\* call of another caller was handed it
C25_Witness ==
  \E c1, c2 \in Calls :
    /\ req[c1].aborted /\ calls[c1].op = "resolveDatabase"
    /\ connections[calls[c1].db] = calls[c1].conn
    /\ conn[calls[c1].conn].state = "connected"
    /\ c2 # c1 /\ GotDb(c2) /\ calls[c2].ret = calls[c1].conn

\* ---------------------------------------------------------------- C26
\* the login in slot c presented the valid credentials of an active user that
\* tenant database d holds
ValidLogin(c, d) ==
  /\ calls[c].op = "login" /\ calls[c].pc = "done"
  /\ calls[c].out # "ValidationError"
  /\ OwnerDoc(d, req[c].owner) \in store[d]
  /\ ClientAdminDoc(d, req[c].owner) \in store[PlatformDb]

\* C26: a login with the valid credentials of an active user of a tenant
\* database succeeds, and the token it returns carries the user's role and
\* the databaseName of the database the user is stored in.
C26_LoginSucceeds ==
  \A c \in Calls, d \in TenantDbs :
    ValidLogin(c, d) =>
      /\ calls[c].out = "200"
      /\ req[c].issued = GenerateToken("client_admin", d)

\* ---------------------------------------------------------------- C27
\* authenticate in slot c2 was handed the token that registerCustomer in slot
\* c1 had issued
PresentsTokenOf(c2, c1) ==
  /\ calls[c1].op = "registerCustomer" /\ req[c1].issued.kind = "jwt"
  /\ calls[c2].op = "authenticate" /\ req[c2].token = req[c1].issued
  /\ c1 \in req[c2].after

\* C27: token round trip: a token issued for a user stored in database d,
\* presented to authenticate, resolves to exactly d: authenticate asks for
\* the connection of d and of no other database, and, the connection being
\* established, passes the request on with d as the user's database.
C27_TokenRoundTrip ==
  \A c1, c2 \in Calls :
    PresentsTokenOf(c2, c1) =>
      /\ ModelDb(calls[c1].ret) = calls[c1].db
      /\ req[c2].asked = calls[c1].db
      /\ ModelDb(calls[c2].conn) = calls[c1].db
      /\ (calls[c2].pc = "done" /\ conn[calls[c2].conn].state # "error") =>
           /\ calls[c2].out = "next"
           /\ req[c2].user.databaseName = calls[c1].db

\* ---------------------------------------------------------------- C28
\* C28: platform() is getDb for the fixed name platform_db, and the platform
\* connection is evicted when it disconnects or errors: the registry's entry
\* for platform_db is never a handle that has emitted either event, so the
\* next platform() call cannot be handed the dead handle.
C28_PlatformEntryNeverDead ==
  /\ connections[PlatformDb] # NoConn =>
       conn[connections[PlatformDb]].state \notin {"faulted", "disconnected"}
  /\ \A c \in Calls :
       (GotDb(c) /\ calls[c].db = PlatformDb /\ calls[c].cached) =>
         conn[calls[c].ret].name = PlatformDb

\* ---------------------------------------------------------------- C29
\* the frame of a cache hit: neither cache, no connection and no registration
\* changes
NothingCreated ==
  /\ conn' = conn /\ connections' = connections
  /\ modelCache' = modelCache /\ registrations' = registrations

\* C29: a cache hit does no creation work: getDb(n) for a name with an entry
\* and getModel(d, e, s) for a cached pair return the cached object in the
\* same step, start no connection, register no model and change neither
\* cache.
C29_CacheHitChangesNothing ==
  [][ \A c \in Calls :
        /\ (calls[c].op = "idle" /\ calls'[c].op = "getDb"
            /\ connections[calls'[c].db] # NoConn) =>
             /\ calls'[c].pc = "done" /\ calls'[c].out = "ok"
             /\ calls'[c].ret = connections[calls'[c].db]
             /\ NothingCreated
        /\ (calls[c].op = "idle" /\ calls'[c].op = "getModel"
            /\ modelCache[calls'[c].db].has
            /\ modelCache[calls'[c].db].models[calls'[c].ent] # NoConn) =>
             /\ calls'[c].pc = "done" /\ calls'[c].out = "ok"
             /\ calls'[c].ret = modelCache[calls'[c].db].models[calls'[c].ent]
             /\ NothingCreated
    ]_vars

\* the case of C29: a getDb call and a getModel call were each answered from
\* the cache, for a tenant database
C29_Witness ==
  \E c1, c2 \in Calls :
    /\ GotDb(c1) /\ calls[c1].cached /\ calls[c1].db \in TenantDbs
    /\ HoldsModel(c2) /\ calls[c2].cached
    /\ modelCache[calls[c2].db].models[calls[c2].ent] = calls[c2].ret

\* ---------------------------------------------------------------- C30
\* C30: after closeAll has finished, whether it returned or threw because a
\* handle failed to close, the registry holds no entry for any handle it
\* called close() on, so the next getDb of any name, platform_db included,
\* creates a fresh connection.
C30_CloseAllLeavesNoEntry ==
  \A c \in Calls :
    (calls[c].op = "closeAll" /\ calls[c].pc = "done") =>
      \A k \in req[c].closing : k \notin Registered

\* ---------------------------------------------------------------- C31
\* C31: on a cache miss getModel binds the entity on a settled handle that
\* getDb resolved, for platform_db just as for a tenant name: a finished
\* getModel call has ended in a model or in the failure of its connection,
\* and the model it returned is bound to a connection that is no longer
\* being created and that talks to the database asked for.
C31_BindsOnSettledHandle ==
  \A c \in Calls :
    (calls[c].op = "getModel" /\ calls[c].pc = "done") =>
      /\ calls[c].out \in {"ok", "ConnectError"}
      /\ calls[c].out = "ok" =>
           /\ conn[calls[c].ret].state # "connecting"
           /\ ModelDb(calls[c].ret) = calls[c].db

\* ---------------------------------------------------------------- C32
\* closeDatabase in slot c is between the start of close() and the removal of
\* the entry
EvictInProgress(c) == calls[c].op = "closeDatabase" /\ calls[c].pc = "closing"

\* C32: while closeDatabase(n) is in progress, a getDb(n) that starts is
\* never handed the connection that is being closed.
C32_ResolveNeverReturnsClosingHandle ==
  \A c1, c2 \in Calls :
    (EvictInProgress(c1) /\ c2 > c1 /\ GotDb(c2) /\ calls[c2].db = calls[c1].db)
      => calls[c2].ret # calls[c1].conn

\* ---------------------------------------------------------------- C33
\* connection k emits 'disconnected' in the step (by itself or as it closes)
EmitsDisconnected(k) ==
  /\ conn[k].state \notin {"disconnected", "closed"}
  /\ conn'[k].state \in {"disconnected", "closed"}

\* the registry's entry under the name of k is another connection, connected
Superseded(k) ==
  /\ conn[k].name \in DbNames
  /\ connections[conn[k].name] \notin {NoConn, k}
  /\ conn[connections[conn[k].name]].state = "connected"

\* C33: a disconnected event from a connection that is no longer the
\* registry's entry for its name leaves the entry of the live connection
\* cached under that name where it is.
C33_StaleDisconnectKeepsLiveEntry ==
  [][ \A k \in Conns :
        (EmitsDisconnected(k) /\ Superseded(k))
          => connections'[conn[k].name] = connections[conn[k].name]
    ]_vars

\* ---------------------------------------------------------------- C34
\* connection k was created (createConnection resolved) and is not closed
Open(k) == conn[k].state \in {"connected", "faulted"}

\* C34: no connection is leaked: every connection that initialize or getDb
\* created and that has not been closed is the registry's entry for its
\* database name, so that closeAll, which closes the entries, reaches it.
C34_NoConnectionLeaked ==
  \A k \in Conns :
    Open(k) => conn[k].name \in DbNames /\ connections[conn[k].name] = k

\* ---------------------------------------------------------------- C35
\* the provisioning run in slot c takes a step, and the name it generated was
\* the name of a database that existed
StepsOnExisting(c) ==
  /\ calls[c].op = "createClientDatabase" /\ req[c].existed
  /\ calls'[c] # calls[c]

\* C35: provisioning never writes into a database that exists already: no
\* step of a run whose generated databaseName named an existing database
\* adds a role or an owner account to that database.
C35_NoWriteIntoExistingDatabase ==
  [][ \A c \in Calls :
        StepsOnExisting(c) => store'[calls[c].db] = store[calls[c].db]
    ]_vars

\* ---------------------------------------------------------------- C36
\* no provisioning run is in flight
NoRunInFlight ==
  \A c \in Calls : calls[c].op = "createClientDatabase" => calls[c].pc = "done"

C37_ExistsUsesLivePlatformHandle ==
  connections[PlatformDb] # NoConn => mainConnection = connections[PlatformDb]

\* ---------------------------------------------------------------- C38
\* the getModel call in slot c ends in the step, in a failure
GetModelFails(c) ==
  /\ calls[c].pc # "done"
  /\ calls'[c].op = "getModel" /\ calls'[c].pc = "done" /\ calls'[c].out # "ok"

\* every binding the cache holds is a model that exists on a connection that
\* was established
CachedBindingsSound ==
  \A d \in DbNames, e \in Entities :
    modelCache[d].models[e] # NoConn =>
      /\ conn[modelCache[d].models[e]].state # "error"
      /\ conn[modelCache[d].models[e]].models[e] # NoSchema

\* C38: a getModel call that fails, for a missing argument or because the
\* connection could not be established, caches no binding: the step in which
\* it fails leaves every cached binding as it was, and the cache never holds
\* a binding on a connection that failed or without a model, so a later call
\* for the pair misses and goes through getDb and the binding again.
C38_FailedGetModelCachesNothing ==
  [][ /\ \A c \in Calls :
           GetModelFails(c) =>
             \A d \in DbNames, e \in Entities :
               modelCache'[d].models[e] = modelCache[d].models[e]
      /\ CachedBindingsSound'
    ]_vars

\* the case of C38: a call failed on its connection, a call of the same pair
\* made after it went through a connection of its own and returned the model
\* that is now cached, and a call with a missing argument failed
C38_Witness ==
  \E c1, c2, c3 \in Calls :
    /\ calls[c1].op = "getModel" /\ calls[c1].out = "ConnectError"
    /\ c2 > c1 /\ HoldsModel(c2) /\ ~calls[c2].cached
    /\ calls[c2].db = calls[c1].db /\ calls[c2].ent = calls[c1].ent
    /\ calls[c2].conn # calls[c1].conn
    /\ modelCache[calls[c2].db].models[calls[c2].ent] = calls[c2].ret
    /\ calls[c3].op = "getModel" /\ calls[c3].out = "ArgumentError"

\* ---------------------------------------------------------------- C39
\* two requests that resolveDatabase served for the same authenticated user
SameUser(c1, c2) ==
  /\ calls[c1].op = "resolveDatabase" /\ calls[c2].op = "resolveDatabase"
  /\ req[c1].user.set /\ req[c1].user = req[c2].user

\* the request in slot c was passed on with a database attached
Resolved(c) == calls[c].op = "resolveDatabase" /\ calls[c].out = "next"

\* C39: for a request with an authenticated user the resolved database does
\* not depend on a databaseName in the body or query string: two requests
\* with the same user, whatever their bodies and queries name, ask for the
\* same database name, are rejected alike when the user carries no name, and
\* when both are passed on they carry the same databaseName and connections
\* to the same database.
C39_BodyNameIndependence ==
  \A c1, c2 \in Calls :
    SameUser(c1, c2) =>
      /\ req[c1].asked = req[c2].asked
      /\ calls[c1].out = "AuthenticationError" <=> calls[c2].out = "AuthenticationError"
      /\ (Resolved(c1) /\ Resolved(c2)) =>
           /\ req[c1].databaseName = req[c2].databaseName
           /\ ModelDb(req[c1].db) = ModelDb(req[c2].db)

\* the case of C39: two requests of one tenant user were passed on with the
\* user's database although one of them named another database in its body
\* and the other did not
C39_Witness ==
  \E c1, c2 \in Calls :
    /\ SameUser(c1, c2) /\ c1 # c2
    /\ req[c1].user.role \in TenantRoles
    /\ req[c1].body = "client_b_db" /\ req[c2].body = NoName
    /\ req[c1].query # req[c2].query
    /\ Resolved(c1) /\ Resolved(c2)
    /\ req[c1].databaseName = "client_a_db" /\ req[c2].databaseName = "client_a_db"

====
